---- MODULE Spec2Model ----
(***************************************************************************)
(* Configuration synchronisation of k8s.io/dns as used by node-cache:      *)
(* the validator of pkg/dns/config (Config.Validate and its three passes), *)
(* the backend selection NewConfigSync, the orchestrator                   *)
(* StartConfigMapSync and the node-cache consumer (updateConfig,           *)
(* syncConfigMap, initConfigMapSync).                                      *)
(*                                                                         *)
(* Go strings are modelled as sequences of one-character strings, so that  *)
(* splitting, parsing and formatting are computed character by character.  *)
(* Go maps are functions whose domain is a set of such strings.            *)
(***************************************************************************)
EXTENDS Integers, Sequences, FiniteSets, TLC

(***************************************************************************)
(* Characters and elementary string functions (package strings, strconv).  *)
(***************************************************************************)
DigitChars == <<"0", "1", "2", "3", "4", "5", "6", "7", "8", "9">>

HexLowerChars == <<"0", "1", "2", "3", "4", "5", "6", "7", "8", "9",
                   "a", "b", "c", "d", "e", "f">>

HexUpperChars == <<"0", "1", "2", "3", "4", "5", "6", "7", "8", "9",
                   "A", "B", "C", "D", "E", "F">>

LowerLetters == {"a", "b", "c", "d", "e", "f", "g", "h", "i", "j", "k", "l", "m",
                 "n", "o", "p", "q", "r", "s", "t", "u", "v", "w", "x", "y", "z"}

Range(f) == {f[i] : i \in DOMAIN f}

IsDigit(c) == c \in Range(DigitChars)

IsHexDigit(c) == c \in Range(HexLowerChars) \cup Range(HexUpperChars)

DigitValue(c) == (CHOOSE i \in 1..10 : DigitChars[i] = c) - 1

HexValue(c) ==
    IF c \in Range(HexLowerChars)
    THEN (CHOOSE i \in 1..16 : HexLowerChars[i] = c) - 1
    ELSE (CHOOSE i \in 1..16 : HexUpperChars[i] = c) - 1

\* s[from..to] with 1-based inclusive positions; empty when from > to.
Slice(s, from, to) == IF from > to THEN <<>> ELSE SubSeq(s, from, to)

\* strings.IndexByte, 1-based; 0 when c does not occur in s.
IndexByte(s, c) ==
    IF \E i \in 1..Len(s) : s[i] = c
    THEN CHOOSE i \in 1..Len(s) : s[i] = c /\ \A j \in 1..(i - 1) : s[j] # c
    ELSE 0

\* strings.LastIndexByte, 1-based; 0 when c does not occur in s.
LastIndexByte(s, c) ==
    IF \E i \in 1..Len(s) : s[i] = c
    THEN CHOOSE i \in 1..Len(s) : s[i] = c /\ \A j \in (i + 1)..Len(s) : s[j] # c
    ELSE 0

\* strings.Split(s, sep) for a one-character separator: always at least one piece.
RECURSIVE Split(_, _)
Split(s, sep) ==
    LET i == IndexByte(s, sep)
    IN  IF i = 0 THEN <<s>>
        ELSE <<Slice(s, 1, i - 1)>> \o Split(Slice(s, i + 1, Len(s)), sep)

\* strings.SplitN(s, sep, 2): split at the first separator only.
SplitN2(s, sep) ==
    LET i == IndexByte(s, sep)
    IN  IF i = 0 THEN <<s>>
        ELSE <<Slice(s, 1, i - 1), Slice(s, i + 1, Len(s))>>

\* strings.Join(parts, sep), sep a string.
RECURSIVE Join(_, _)
Join(parts, sep) ==
    IF Len(parts) = 0 THEN <<>>
    ELSE IF Len(parts) = 1 THEN parts[1]
    ELSE parts[1] \o sep \o Join(Tail(parts), sep)

AllDigits(s) == \A i \in 1..Len(s) : IsDigit(s[i])

RECURSIVE StripLeadingZeros(_)
StripLeadingZeros(s) ==
    IF Len(s) > 1 /\ s[1] = "0" THEN StripLeadingZeros(Tail(s)) ELSE s

\* Value of a string of decimal digits (at most nine significant digits).
RECURSIVE DecimalValue(_)
DecimalValue(s) ==
    IF Len(s) = 0 THEN 0
    ELSE 10 * DecimalValue(Slice(s, 1, Len(s) - 1)) + DigitValue(s[Len(s)])

\* An int (64 bits) in decimal: its sign and the digits of its magnitude,
\* without leading zeros.
Int64(neg, mag) == [neg |-> neg /\ mag # <<"0">>, mag |-> mag]

MaxInt64 ==
    Int64(FALSE, <<"9", "2", "2", "3", "3", "7", "2", "0", "3", "6",
                   "8", "5", "4", "7", "7", "5", "8", "0", "7">>)

MinInt64 ==
    Int64(TRUE, <<"9", "2", "2", "3", "3", "7", "2", "0", "3", "6",
                  "8", "5", "4", "7", "7", "5", "8", "0", "8">>)

\* a < b for magnitudes written without leading zeros.
RECURSIVE MagLess(_, _)
MagLess(a, b) ==
    IF Len(a) # Len(b) THEN Len(a) < Len(b)
    ELSE IF Len(a) = 0 THEN FALSE
    ELSE IF a[1] # b[1] THEN DigitValue(a[1]) < DigitValue(b[1])
    ELSE MagLess(Tail(a), Tail(b))

\* v < n and v > n for an int v and a number n of at most nine digits.
Int64Less(v, n) ==
    IF Len(v.mag) > 9 THEN v.neg
    ELSE (IF v.neg THEN 0 - DecimalValue(v.mag) ELSE DecimalValue(v.mag)) < n

Int64Greater(v, n) ==
    IF Len(v.mag) > 9 THEN ~v.neg
    ELSE (IF v.neg THEN 0 - DecimalValue(v.mag) ELSE DecimalValue(v.mag)) > n

\* The largest uint64 and the largest uint16, in decimal.
MaxUint64Mag ==
    <<"1", "8", "4", "4", "6", "7", "4", "4", "0", "7",
      "3", "7", "0", "9", "5", "5", "1", "6", "1", "5">>

MaxUint16Mag == <<"6", "5", "5", "3", "5">>

\* The loop of strconv.ParseUint(s, 10, bitSize) over the characters of s,
\* maxMag being the largest value of bitSize bits: it stops at the first
\* character that is no digit (syntax error, value 0) or that takes the
\* number read so far above maxMag (range error, value maxMag), whichever
\* comes first.  The value is given in decimal.
ParseUintLoop(s, maxMag) ==
    LET stops == { i \in 1..Len(s) :
                      \/ ~IsDigit(s[i])
                      \/ /\ AllDigits(Slice(s, 1, i))
                         /\ MagLess(maxMag, StripLeadingZeros(Slice(s, 1, i))) }
        first == CHOOSE i \in stops : \A j \in stops : i <= j
    IN  IF Len(s) = 0 THEN [why |-> "syntax", mag |-> <<"0">>]
        ELSE IF stops = {} THEN [why |-> "nil", mag |-> StripLeadingZeros(s)]
        ELSE IF ~IsDigit(s[first]) THEN [why |-> "syntax", mag |-> <<"0">>]
        ELSE [why |-> "range", mag |-> maxMag]

\* strconv.ParseUint(s, 10, 16): digits only (no sign), value below 2^16.
ParseUint16(s) ==
    LET u == ParseUintLoop(s, MaxUint16Mag)
    IN  [ok |-> u.why = "nil", val |-> DecimalValue(u.mag)]

\* strconv.Atoi(s): an optional sign, then the digits read as a uint64; a
\* syntax error gives 0, a value beyond int64 a range error with the
\* nearest limit.
Atoi(s) ==
    LET signed == Len(s) > 0 /\ s[1] \in {"+", "-"}
        body == IF signed THEN Tail(s) ELSE s
        neg == signed /\ s[1] = "-"
        u == ParseUintLoop(body, MaxUint64Mag)
    IN  IF u.why = "syntax" THEN [ok |-> FALSE, val |-> Int64(FALSE, <<"0">>)]
        ELSE IF ~neg /\ MagLess(MaxInt64.mag, u.mag) THEN [ok |-> FALSE, val |-> MaxInt64]
        ELSE IF neg /\ MagLess(MinInt64.mag, u.mag) THEN [ok |-> FALSE, val |-> MinInt64]
        ELSE [ok |-> TRUE, val |-> Int64(neg, u.mag)]

\* strconv.Itoa for a natural number.
RECURSIVE Itoa(_)
Itoa(n) ==
    IF n < 10 THEN <<DigitChars[n + 1]>>
    ELSE Itoa(n \div 10) \o <<DigitChars[(n % 10) + 1]>>

\* Lower-case hexadecimal without leading zeros (the %x of a 16-bit group).
RECURSIVE HexString(_)
HexString(n) ==
    IF n < 16 THEN <<HexLowerChars[n + 1]>>
    ELSE HexString(n \div 16) \o <<HexLowerChars[(n % 16) + 1]>>

(***************************************************************************)
(* net.ParseIP and IP.String (Go standard library, as of Go 1.17 and       *)
(* later: an IPv4 field with a leading zero is rejected).  An address is   *)
(* its eight 16-bit groups; an IPv4 address is held in its IPv4-mapped     *)
(* form, as net.ParseIP returns it.                                        *)
(***************************************************************************)
NoIP == [ok |-> FALSE, groups |-> <<>>]

IPv4FieldOK(f) ==
    /\ Len(f) > 0
    /\ AllDigits(f)
    /\ ~(Len(f) > 1 /\ f[1] = "0")
    /\ Len(f) <= 3
    /\ DecimalValue(f) <= 255

\* Dotted decimal: exactly four fields of 0..255 without leading zeros.
ParseIPv4(s) ==
    LET f == Split(s, ".")
    IN  IF Len(f) = 4 /\ \A i \in 1..4 : IPv4FieldOK(f[i])
        THEN [ok |-> TRUE,
              groups |-> <<0, 0, 0, 0, 0, 65535,
                           256 * DecimalValue(f[1]) + DecimalValue(f[2]),
                           256 * DecimalValue(f[3]) + DecimalValue(f[4])>>]
        ELSE NoIP

\* Number of leading hexadecimal digits of s.
RECURSIVE HexPrefixLen(_)
HexPrefixLen(s) ==
    IF Len(s) > 0 /\ IsHexDigit(s[1]) THEN 1 + HexPrefixLen(Tail(s)) ELSE 0

RECURSIVE HexGroupValue(_)
HexGroupValue(s) ==
    IF Len(s) = 0 THEN 0
    ELSE 16 * HexGroupValue(Slice(s, 1, Len(s) - 1)) + HexValue(s[Len(s)])

Zeros(n) == [i \in 1..n |-> 0]

\* The end of the IPv6 parse: nothing may be left, and the "::", when there is
\* one, must stand for at least one group.
ParseIPv6Finish(s, groups, ellipsis) ==
    IF Len(s) # 0 THEN NoIP
    ELSE IF Len(groups) < 8
    THEN IF ellipsis < 0 THEN NoIP
         ELSE [ok |-> TRUE,
               groups |-> Slice(groups, 1, ellipsis) \o Zeros(8 - Len(groups))
                          \o Slice(groups, ellipsis + 1, Len(groups))]
    ELSE IF ellipsis >= 0 THEN NoIP
    ELSE [ok |-> TRUE, groups |-> groups]

\* The loop over the groups; ellipsis is the number of groups before the "::",
\* or -1.  s is not empty and fewer than eight groups have been read.
RECURSIVE ParseIPv6Loop(_, _, _)
ParseIPv6Loop(s, groups, ellipsis) ==
    LET off == HexPrefixLen(s)
        g == groups \o <<HexGroupValue(Slice(s, 1, off))>>
        rest == Slice(s, off + 1, Len(s))
        r2 == Tail(rest)
        r3 == Tail(r2)
        v4 == ParseIPv4(s)
    IN  IF off > 4 \/ off = 0 THEN NoIP
        ELSE IF off < Len(s) /\ s[off + 1] = "."
        THEN IF (ellipsis < 0 /\ Len(groups) # 6) \/ Len(groups) > 6 \/ ~v4.ok
             THEN NoIP
             ELSE ParseIPv6Finish(<<>>, groups \o <<v4.groups[7], v4.groups[8]>>, ellipsis)
        ELSE IF Len(rest) = 0 THEN ParseIPv6Finish(<<>>, g, ellipsis)
        ELSE IF rest[1] # ":" \/ Len(rest) = 1 THEN NoIP
        ELSE IF r2[1] = ":"
        THEN IF ellipsis >= 0 THEN NoIP
             ELSE IF Len(r3) = 0 \/ Len(g) >= 8 THEN ParseIPv6Finish(r3, g, Len(g))
             ELSE ParseIPv6Loop(r3, g, Len(g))
        ELSE IF Len(g) >= 8 THEN ParseIPv6Finish(r2, g, ellipsis)
        ELSE ParseIPv6Loop(r2, g, ellipsis)

ParseIPv6(s) ==
    IF Len(s) >= 2 /\ s[1] = ":" /\ s[2] = ":"
    THEN IF Len(s) = 2 THEN [ok |-> TRUE, groups |-> Zeros(8)]
         ELSE ParseIPv6Loop(Slice(s, 3, Len(s)), <<>>, 0)
    ELSE ParseIPv6Loop(s, <<>>, -1)

\* net.ParseIP: the first of '.', ':' and '%' decides the form; a zone is refused.
ParseIP(s) ==
    LET marks == {i \in 1..Len(s) : s[i] \in {".", ":", "%"}}
        first == CHOOSE i \in marks : \A j \in marks : i <= j
    IN  IF marks = {} \/ IndexByte(s, "%") # 0 THEN NoIP
        ELSE IF s[first] = "." THEN ParseIPv4(s)
        ELSE ParseIPv6(s)

\* Length of the run of zero groups that starts at group i.
RECURSIVE ZeroRun(_, _)
ZeroRun(groups, i) ==
    IF i <= Len(groups) /\ groups[i] = 0 THEN 1 + ZeroRun(groups, i + 1) ELSE 0

RECURSIVE FormatIPv6(_, _, _, _)
FormatIPv6(groups, i, e0, e1) ==
    IF i > 8 THEN <<>>
    ELSE IF i = e0
    THEN <<":", ":">> \o
         (IF e1 > 8 THEN <<>>
          ELSE HexString(groups[e1]) \o FormatIPv6(groups, e1 + 1, e0, e1))
    ELSE (IF i > 1 THEN <<":">> ELSE <<>>) \o HexString(groups[i])
         \o FormatIPv6(groups, i + 1, e0, e1)

\* IP.String of a parsed address: dotted decimal for an IPv4(-mapped) address,
\* otherwise the IPv6 text with the first longest run of two or more zero
\* groups written as "::".
IPString(groups) ==
    IF Slice(groups, 1, 6) = <<0, 0, 0, 0, 0, 65535>>
    THEN Join(<<Itoa(groups[7] \div 256), Itoa(groups[7] % 256),
                Itoa(groups[8] \div 256), Itoa(groups[8] % 256)>>, <<".">>)
    ELSE LET best == CHOOSE i \in 1..8 :
                        /\ \A j \in 1..8 : ZeroRun(groups, j) <= ZeroRun(groups, i)
                        /\ \A j \in 1..(i - 1) : ZeroRun(groups, j) < ZeroRun(groups, i)
             n == ZeroRun(groups, best)
         IN  IF n >= 2 THEN FormatIPv6(groups, 1, best, best + n)
             ELSE FormatIPv6(groups, 1, 0, 0)

(***************************************************************************)
(* net.SplitHostPort (Go standard library).                                *)
(***************************************************************************)
SplitHostPort(hostport) ==
    LET n == Len(hostport)
        i == LastIndexByte(hostport, ":")
        end == IndexByte(hostport, "]")
        bracket == n > 0 /\ hostport[1] = "["
        host == IF bracket THEN Slice(hostport, 2, end - 1) ELSE Slice(hostport, 1, i - 1)
        \* j, k: where the search for a stray '[' and a stray ']' starts
        j == IF bracket THEN 2 ELSE 1
        k == IF bracket THEN end + 1 ELSE 1
        fail(why) == [ok |-> FALSE, host |-> <<>>, port |-> <<>>, why |-> why]
    IN  IF i = 0 THEN fail("missing port in address")
        ELSE IF bracket /\ end = 0 THEN fail("missing ']' in address")
        ELSE IF bracket /\ end = n THEN fail("missing port in address")
        ELSE IF bracket /\ end + 1 # i
        THEN IF hostport[end + 1] = ":" THEN fail("too many colons in address")
             ELSE fail("missing port in address")
        ELSE IF ~bracket /\ IndexByte(host, ":") # 0 THEN fail("too many colons in address")
        ELSE IF IndexByte(Slice(hostport, j, n), "[") # 0 THEN fail("unexpected '[' in address")
        ELSE IF IndexByte(Slice(hostport, k, n), "]") # 0 THEN fail("unexpected ']' in address")
        ELSE [ok |-> TRUE, host |-> host, port |-> Slice(hostport, i + 1, n), why |-> ""]

(***************************************************************************)
(* k8s.io/apimachinery/pkg/util/validation, as the validator uses it.      *)
(***************************************************************************)
IsAlnumLower(c) == c \in LowerLetters \/ IsDigit(c)

\* One label of [a-z0-9]([-a-z0-9]*[a-z0-9])?
DNS1123LabelSyntax(l) ==
    /\ Len(l) > 0
    /\ \A i \in 1..Len(l) : IsAlnumLower(l[i]) \/ l[i] = "-"
    /\ IsAlnumLower(l[1])
    /\ IsAlnumLower(l[Len(l)])

\* len(validation.IsDNS1123Subdomain(value)) == 0
IsDNS1123Subdomain(value) ==
    /\ Len(value) <= 253
    /\ LET labels == Split(value, ".")
       IN  \A i \in 1..Len(labels) : DNS1123LabelSyntax(labels[i])

\* len(validation.IsValidIP(value)) == 0
IsValidIP(value) == ParseIP(value).ok

(***************************************************************************)
(* Errors.  A Go error is the pair of its message's fixed text and the     *)
(* value the message quotes; NoErr is the nil error.                       *)
(***************************************************************************)
NoErr == [kind |-> "nil", arg |-> <<>>]

Err(kind, arg) == [kind |-> kind, arg |-> arg]

\* The first error of a sequence of errors, NoErr when there is none: a loop
\* that returns at its first failing element.
RECURSIVE FirstError(_)
FirstError(errs) ==
    IF Len(errs) = 0 THEN NoErr
    ELSE IF errs[1] # NoErr THEN errs[1]
    ELSE FirstError(Tail(errs))

\* The orders in which a range loop may visit the keys of a Go map.
Orders(keys) == {o \in [1..Cardinality(keys) -> keys] : Range(o) = keys}

\* ValidateNameserverIpAndPort with the lower port limit off by one (p < 0).
ValidateNameserverIpAndPort_Port0(nameServer) ==
    LET ip == ParseIP(nameServer)
        hp == SplitHostPort(nameServer)
        p == Atoi(hp.port)
        fail(e) == [ip |-> <<>>, port |-> <<>>, err |-> e]
    IN  IF ip.ok THEN [ip |-> IPString(ip.groups), port |-> <<"5", "3">>, err |-> NoErr]
        ELSE IF ~hp.ok THEN fail(Err(hp.why, nameServer))
        ELSE IF ~ParseIP(hp.host).ok THEN fail(Err("bad IP address", hp.host))
        ELSE IF ~p.ok \/ Int64Less(p.val, 0) \/ Int64Greater(p.val, 65535)
        THEN fail(Err("bad port number", hp.port))
        ELSE [ip |-> hp.host, port |-> hp.port, err |-> NoErr]

(***************************************************************************)
(* util.ValidateNameserverIpAndPort                                        *)
(***************************************************************************)
ValidateNameserverIpAndPort(nameServer) ==
    LET ip == ParseIP(nameServer)
        hp == SplitHostPort(nameServer)
        p == Atoi(hp.port)
        fail(e) == [ip |-> <<>>, port |-> <<>>, err |-> e]
    IN  IF ip.ok THEN [ip |-> IPString(ip.groups), port |-> <<"5", "3">>, err |-> NoErr]
        ELSE IF ~hp.ok THEN fail(Err(hp.why, nameServer))
        ELSE IF ~ParseIP(hp.host).ok THEN fail(Err("bad IP address", hp.host))
        ELSE IF ~p.ok \/ Int64Less(p.val, 1) \/ Int64Greater(p.val, 65535)
        THEN fail(Err("bad port number", hp.port))
        ELSE [ip |-> hp.host, port |-> hp.port, err |-> NoErr]

(***************************************************************************)
(* Config and its validation (package config).  A Config is the record of  *)
(* its three fields; a nil map is the empty function and a nil slice the   *)
(* empty sequence.                                                         *)
(***************************************************************************)
EmptyMap == [k \in {} |-> <<>>]

MakeConfig(feds, stubs, upstream) ==
    [Federations |-> feds, StubDomains |-> stubs, UpstreamNameservers |-> upstream]

\* The federation names and domains that the rules of package federation
\* accept: an opaque predicate, given here by the names it holds of.
ValidFederationNames == {<<"f", "e", "d">>}

ValidFederationDomains == {<<"f", ".", "i", "o">>}

fedValidateName(name) ==
    IF name \in ValidFederationNames THEN NoErr
    ELSE Err("not a valid federation name", name)

fedValidateDomain(domain) ==
    IF domain \in ValidFederationDomains THEN NoErr
    ELSE Err("not a valid domain name", domain)

\* One (name, domain) entry of the federation loop.
validateFederation(name, domain) ==
    FirstError(<<fedValidateName(name), fedValidateDomain(domain)>>)

\* order: the order in which the range loop visits config.Federations.
validateFederations(config, order) ==
    FirstError([i \in 1..Len(order) |->
                   validateFederation(order[i], config.Federations[order[i]])])

\* validateStubNameserver rejecting when either check fails (|| for &&).
validateStubNameserver_Either(ns) ==
    LET nsStrings == SplitN2(ns, ":")
    IN  IF Len(nsStrings) = 2 /\ ~ParseUint16(nsStrings[2]).ok
        THEN Err("invalid nameserver", ns)
        ELSE IF ~IsValidIP(nsStrings[1]) \/ ~IsDNS1123Subdomain(ns)
        THEN Err("invalid nameserver", ns)
        ELSE NoErr

\* validateStubNameserver applying the DNS-1123 fallback to the host segment
\* instead of the whole string.
validateStubNameserver_HostFallback(ns) ==
    LET nsStrings == SplitN2(ns, ":")
    IN  IF Len(nsStrings) = 2 /\ ~ParseUint16(nsStrings[2]).ok
        THEN Err("invalid nameserver", ns)
        ELSE IF ~IsValidIP(nsStrings[1]) /\ ~IsDNS1123Subdomain(nsStrings[1])
        THEN Err("invalid nameserver", ns)
        ELSE NoErr

\* One nameserver of a stub domain.
validateStubNameserver(ns) ==
    LET nsStrings == SplitN2(ns, ":")
    IN  IF Len(nsStrings) = 2 /\ ~ParseUint16(nsStrings[2]).ok
        THEN Err("invalid nameserver", ns)
        ELSE IF ~IsValidIP(nsStrings[1]) /\ ~IsDNS1123Subdomain(ns)
        THEN Err("invalid nameserver", ns)
        ELSE NoErr

\* One (domain, nsList) entry of the stub-domain loop.
validateStubDomain(domain, nsList) ==
    IF ~IsDNS1123Subdomain(domain) THEN Err("invalid domain name", domain)
    ELSE FirstError([i \in 1..Len(nsList) |-> validateStubNameserver(nsList[i])])

\* order: the order in which the range loop visits config.StubDomains.
validateStubDomains(config, order) ==
    FirstError([i \in 1..Len(order) |->
                   validateStubDomain(order[i], config.StubDomains[order[i]])])

validateUpstreamNameserver(config) ==
    IF Len(config.UpstreamNameservers) > 3
    THEN Err("upstreamNameserver cannot have more than three entries", <<>>)
    ELSE FirstError([i \in 1..Len(config.UpstreamNameservers) |->
                        ValidateNameserverIpAndPort(config.UpstreamNameservers[i]).err])

\* Validate with the stub-domain pass run before the federation pass.
Validate_StubFirst(config, fedOrder, stubOrder) ==
    LET e1 == validateFederations(config, fedOrder)
        e2 == validateStubDomains(config, stubOrder)
        e3 == validateUpstreamNameserver(config)
    IN  IF e2 # NoErr THEN [err |-> e2, ran |-> <<"stubDomains">>]
        ELSE IF e1 # NoErr THEN [err |-> e1, ran |-> <<"stubDomains", "federations">>]
        ELSE [err |-> e3, ran |-> <<"stubDomains", "federations", "upstreamNameservers">>]

\* Config.Validate: the returned error and the passes that were run, in order.
Validate(config, fedOrder, stubOrder) ==
    LET e1 == validateFederations(config, fedOrder)
        e2 == validateStubDomains(config, stubOrder)
        e3 == validateUpstreamNameserver(config)
    IN  IF e1 # NoErr THEN [err |-> e1, ran |-> <<"federations">>]
        ELSE IF e2 # NoErr THEN [err |-> e2, ran |-> <<"federations", "stubDomains">>]
        ELSE [err |-> e3, ran |-> <<"federations", "stubDomains", "upstreamNameservers">>]

\* Whether Validate accepts config; the outcome nil / non-nil does not depend
\* on the order of the map loops, so any one order decides it.
AnyOrder(keys) == CHOOSE o \in Orders(keys) : TRUE

IsValid(config) ==
    Validate(config, AnyOrder(DOMAIN config.Federations),
             AnyOrder(DOMAIN config.StubDomains)).err = NoErr

(***************************************************************************)
(* Sample strings and configurations.                                      *)
(***************************************************************************)
Ip8888 == <<"8", ".", "8", ".", "8", ".", "8">>

Ip8844 == <<"8", ".", "8", ".", "4", ".", "4">>

Ip1111 == <<"1", ".", "1", ".", "1", ".", "1">>

AcmeLocal == <<"a", "c", "m", "e", ".", "l", "o", "c", "a", "l">>

FedName == <<"f", "e", "d">>

FedDomain == <<"f", ".", "i", "o">>

BadFedName == <<"F", "E", "D", "!">>

\* What the directory or the ConfigMap may hold when it is read: two valid
\* configurations, a valid one whose stub domain lists no nameserver, and two
\* that Validate refuses.
CfgUpstream == MakeConfig(EmptyMap, EmptyMap, <<Ip8888, Ip8844>>)

CfgStub == MakeConfig(EmptyMap, [d \in {AcmeLocal} |-> <<Ip1111>>], <<>>)

CfgStubNoServer == MakeConfig(EmptyMap, [d \in {AcmeLocal} |-> <<>>], <<>>)

CfgTooMany == MakeConfig(EmptyMap, EmptyMap, <<Ip8888, Ip8844, Ip1111, Ip8888>>)

CfgBadStub == MakeConfig(EmptyMap, [d \in {<<"U", "P">>} |-> <<Ip1111>>], <<>>)

SourceConfigs == {CfgUpstream, CfgStub, CfgStubNoServer, CfgTooMany, CfgBadStub}

ValidSourceConfigs == {c \in SourceConfigs : IsValid(c)}

\* The NameServers flag: empty, one address, two addresses, not an address,
\* and a list with an empty last piece.
NameServerFlags ==
    {<<>>, Ip8888, Ip8888 \o <<",">> \o Ip8844, <<"x">>, Ip1111 \o <<",">>}

FederationFlags ==
    {EmptyMap, [n \in {FedName} |-> FedDomain], [n \in {BadFedName} |-> FedDomain]}

Settings ==
    [ConfigMapNs : {"kube-system"},
     ConfigMap : {"", "kube-dns"},
     ConfigDir : {"", "/cfg"},
     ConfigPeriod : {10},
     NameServers : NameServerFlags,
     Federations : FederationFlags]

(***************************************************************************)
(* Inputs of the validator.                                                *)
(***************************************************************************)
\* "8.8.8.8"
NsIp == <<"8", ".", "8", ".", "8", ".", "8">>

\* "8.8.8.8:53"
NsIpPort53 == <<"8", ".", "8", ".", "8", ".", "8", ":", "5", "3">>

\* "8.8.8.8:5353"
NsIpPort5353 == <<"8", ".", "8", ".", "8", ".", "8", ":", "5", "3", "5", "3">>

\* "8.8.8.8:0"
NsIpPort0 == <<"8", ".", "8", ".", "8", ".", "8", ":", "0">>

\* "8.8.8.8:1"
NsIpPort1 == <<"8", ".", "8", ".", "8", ".", "8", ":", "1">>

\* "8.8.8.8:65535"
NsIpPort65535 == <<"8", ".", "8", ".", "8", ".", "8", ":", "6", "5", "5", "3", "5">>

\* "8.8.8.8:65536"
NsIpPort65536 == <<"8", ".", "8", ".", "8", ".", "8", ":", "6", "5", "5", "3", "6">>

\* "8.8.8.8:70000"
NsIpPort70000 == <<"8", ".", "8", ".", "8", ".", "8", ":", "7", "0", "0", "0", "0">>

\* "8.8.8.8:9223372036854775808": the port is one above the largest int
NsIpPortHuge ==
    <<"8", ".", "8", ".", "8", ".", "8", ":", "9", "2", "2", "3", "3", "7", "2", "0", "3", "6", "8">> \o
    <<"5", "4", "7", "7", "5", "8", "0", "8">>

\* "8.8.8.8:+53"
NsIpPortPlus == <<"8", ".", "8", ".", "8", ".", "8", ":", "+", "5", "3">>

\* "8.8.8.8:-1"
NsIpPortMinus == <<"8", ".", "8", ".", "8", ".", "8", ":", "-", "1">>

\* "8.8.8.8:053"
NsIpPortZeros == <<"8", ".", "8", ".", "8", ".", "8", ":", "0", "5", "3">>

\* "8.8.8.8:"
NsIpPortEmpty == <<"8", ".", "8", ".", "8", ".", "8", ":">>

\* "8.8.8.8:5:3"
NsIpTwoPorts == <<"8", ".", "8", ".", "8", ".", "8", ":", "5", ":", "3">>

\* "not-an-ip:53"
NsNotAnIpPort == <<"n", "o", "t", "-", "a", "n", "-", "i", "p", ":", "5", "3">>

\* "not-an-ip"
NsNotAnIp == <<"n", "o", "t", "-", "a", "n", "-", "i", "p">>

\* "ns.acme.local"
NsHostName == <<"n", "s", ".", "a", "c", "m", "e", ".", "l", "o", "c", "a", "l">>

\* "NS.local"
NsUpperHost == <<"N", "S", ".", "l", "o", "c", "a", "l">>

\* "8.8.8"
NsShortIp == <<"8", ".", "8", ".", "8">>

\* "08.8.8.8"
NsLeadingZeroIp == <<"0", "8", ".", "8", ".", "8", ".", "8">>

\* ""
NsEmpty == <<>>

\* ":53"
NsPortOnly == <<":", "5", "3">>

\* "::1"
NsV6 == <<":", ":", "1">>

\* "[::1]:53"
NsV6Bracket == <<"[", ":", ":", "1", "]", ":", "5", "3">>

\* "fe80::1:53"
NsV6Port == <<"f", "e", "8", "0", ":", ":", "1", ":", "5", "3">>

\* "[::1]"
NsV6BracketOnly == <<"[", ":", ":", "1", "]">>

\* "[8.8.8.8]x:53"
NsV6BadBracket == <<"[", "8", ".", "8", ".", "8", ".", "8", "]", "x", ":", "5", "3">>

\* "UPPER.local"
DomUpper == <<"U", "P", "P", "E", "R", ".", "l", "o", "c", "a", "l">>

\* "a"
DomSingle == <<"a">>

\* "-a.local"
DomHyphen == <<"-", "a", ".", "l", "o", "c", "a", "l">>

\* ""
DomEmpty == <<>>

\* "a..b"
DomEmptyLabel == <<"a", ".", ".", "b">>

NameserverSamples ==
    {NsIp, NsIpPort53, NsIpPort5353, NsIpPort0, NsIpPort1,
     NsIpPort65535, NsIpPort65536, NsIpPort70000, NsIpPortHuge, NsIpPortPlus,
     NsIpPortMinus,
     NsIpPortZeros, NsIpPortEmpty, NsIpTwoPorts, NsNotAnIpPort, NsNotAnIp,
     NsHostName, NsUpperHost, NsShortIp, NsLeadingZeroIp, NsEmpty,
     NsPortOnly, NsV6, NsV6Bracket, NsV6Port, NsV6BracketOnly,
     NsV6BadBracket}

DomainSamples == {AcmeLocal, DomUpper, DomSingle, DomHyphen, DomEmpty, DomEmptyLabel}

\* Longest upstream list enumerated over UpstreamCore.
MaxUpstreamLen == 4

UpstreamCore == {NsIp, NsIpPort53, NsIpPort0}

ListsUpTo(n, S) == UNION {[1..k -> S] : k \in 0..n}

UpstreamInputs ==
    {<<e>> : e \in NameserverSamples} \cup ListsUpTo(MaxUpstreamLen, UpstreamCore)

OneStub(domain, nsList) == [d \in {domain} |-> nsList]

TwoStubs(d1, l1, d2, l2) == [d \in {d1, d2} |-> IF d = d1 THEN l1 ELSE l2]

StubInputs ==
    {EmptyMap}
    \cup {OneStub(AcmeLocal, <<e>>) : e \in NameserverSamples}
    \cup {OneStub(d, <<NsIp>>) : d \in DomainSamples}
    \cup {OneStub(AcmeLocal, l) :
             l \in {<<>>, <<NsIp, NsHostName>>, <<NsIp, NsIpPort65536>>,
                    <<NsNotAnIpPort, NsIp>>, <<NsIpPort0, NsUpperHost>>}}
    \cup {TwoStubs(AcmeLocal, <<NsIp>>, DomSingle, <<NsHostName>>),
          TwoStubs(AcmeLocal, <<NsIp>>, DomUpper, <<NsIp>>),
          TwoStubs(AcmeLocal, <<NsIpPort65536>>, DomUpper, <<NsIp>>)}

FedInputs ==
    {EmptyMap,
     [n \in {FedName} |-> FedDomain],
     [n \in {BadFedName} |-> FedDomain],
     [n \in {FedName} |-> DomUpper],
     [n \in {FedName, BadFedName} |-> IF n = FedName THEN DomUpper ELSE FedDomain]}

StubCore ==
    {EmptyMap, OneStub(AcmeLocal, <<NsIpPort0>>), OneStub(DomUpper, <<NsIp>>),
     OneStub(AcmeLocal, <<NsNotAnIpPort>>)}

ValidatorInputs ==
    {MakeConfig(f, s, u) :
        f \in FedInputs, s \in StubCore, u \in {<<>>, <<NsIp>>, <<NsIpPort0>>,
                                                <<NsIp, NsIp, NsIp, NsIp>>}}
    \cup {MakeConfig(EmptyMap, s, <<>>) : s \in StubInputs}
    \cup {MakeConfig(EmptyMap, EmptyMap, u) : u \in UpstreamInputs}

\* The settings a run starts from.  node-cache starts from NewDNSConfig's
\* defaults for the static flags; the static flags vary freely only where they
\* are used, when no backend is named.
StartSettings(who) ==
    {s \in Settings :
        (who = "node-cache" \/ s.ConfigMap # "" \/ s.ConfigDir # "")
            => (s.Federations = EmptyMap /\ s.NameServers \in {<<>>, Ip8888})}

(***************************************************************************)
(* State.                                                                  *)
(***************************************************************************)
VARIABLES
    entry,          \* who drives the package: "node-cache" (initConfigMapSync) or "api"
    dnsConfig,      \* the settings (DNSConfig)
    proc,           \* "running", "fatal" (glog.Fatal) or "panicked"
    mainPc,         \* position of the calling thread
    configSync,     \* the Sync handle NewConfigSync returned
    onceResult,     \* what Once() returned
    startResult,    \* what StartConfigMapSync returned
    initialCalls,   \* the configurations updateFunc was invoked with by StartConfigMapSync
    periodicCalls,  \* number of calls of Periodic()
    bgLaunched,     \* number of background periodicSync tasks launched
    prodPc,         \* the backend's stream: "off", "idle" or "sending"
    prodItem,       \* the configuration the stream is sending
    ticks,          \* ticks / change events the stream has handled
    cycles,         \* the outcome of each read-and-validate cycle of the stream
    sent,           \* the configurations sent on the stream, in order
    bgPc,           \* the background task: "none", "recv" or "inUpdate"
    applied,        \* the configurations syncConfigMap passed to updateConfig
    current,        \* per thread, the configuration updateConfig is running on
    active,         \* number of updateConfig invocations executing
    maxActive,      \* the largest value active has had
    confFile,       \* content of the written config file
    lastUpdate,     \* the last updateConfig that ran to its end, and how
    vconfig,        \* validator harness: the Config under validation
    vorders,        \* validator harness: the map-loop orders of the call
    vres            \* validator harness: the call made and its result

vars == <<entry, dnsConfig, proc, mainPc, configSync, onceResult, startResult,
          initialCalls, periodicCalls, bgLaunched, prodPc, prodItem, ticks, cycles, sent,
          bgPc, applied, current, active, maxActive, confFile, lastUpdate,
          vconfig, vorders, vres>>

syncVars == <<entry, dnsConfig, proc, mainPc, configSync, onceResult, startResult,
              initialCalls, periodicCalls, bgLaunched, prodPc, prodItem, ticks, cycles, sent,
              bgPc, applied, current, active, maxActive, confFile, lastUpdate>>

validatorVars == <<vconfig, vorders, vres>>

\* Bound of the model: ticks and change events a stream handles.
MaxTicks == 3

NoConfig == [none |-> TRUE]

NoSync == [kind |-> "none"]

NotWritten == <<"unwritten">>

NoUpdate == [called |-> FALSE]

\* The validator harness before any call.
NoCall == [call |-> "none", arg |-> <<>>, err |-> NoErr, ran |-> <<>>,
           ip |-> <<>>, port |-> <<>>]
(***************************************************************************)
(* The backends (package config, sync implementations).  Their sources are *)
(* not part of the files modelled here: they follow the documented         *)
(* contract of the Sync interface.  Once() reads and validates; the stream *)
(* re-reads on every tick or change event and sends what validates.        *)
(***************************************************************************)
NewConfigMapSync(ns, name) == [kind |-> "configmap", ns |-> ns, name |-> name]

NewFileSync(dir, period) == [kind |-> "file", dir |-> dir, period |-> period]

NewNopSync(conf) == [kind |-> "nop", config |-> conf]

ValidationError(c) ==
    Validate(c, AnyOrder(DOMAIN c.Federations), AnyOrder(DOMAIN c.StubDomains)).err

\* One read-and-validate cycle of a reading backend: a read failure, or what
\* the source holds, validated.
ReadOutcomes ==
    {[cfg |-> NoConfig, err |-> Err("read failed", <<>>)]}
    \cup {[cfg |-> c, err |-> NoErr] : c \in ValidSourceConfigs}
    \cup {[cfg |-> NoConfig, err |-> ValidationError(c)] :
             c \in SourceConfigs \ ValidSourceConfigs}

\* The possible results of sync.Once().
OnceOutcomes(sync) ==
    IF sync.kind = "nop" THEN {[cfg |-> sync.config, err |-> NoErr]}
    ELSE ReadOutcomes

\* NewConfigSync without the conflict case: the ConfigMap wins.
NewConfigSync_NoConflict(config) ==
    IF config.ConfigMap # ""
    THEN [fatal |-> FALSE, sync |-> NewConfigMapSync(config.ConfigMapNs, config.ConfigMap)]
    ELSE IF config.ConfigDir # ""
    THEN [fatal |-> FALSE, sync |-> NewFileSync(config.ConfigDir, config.ConfigPeriod)]
    ELSE [fatal |-> FALSE,
          sync |-> NewNopSync(MakeConfig(config.Federations, EmptyMap,
                                         IF Len(config.NameServers) > 0
                                         THEN Split(config.NameServers, <<",">>[1])
                                         ELSE <<>>))]

\* NewConfigSync splitting NameServers even when it is empty.
NewConfigSync_AlwaysSplit(config) ==
    IF config.ConfigMap # "" /\ config.ConfigDir # ""
    THEN [fatal |-> TRUE, sync |-> NoSync]
    ELSE IF config.ConfigMap # ""
    THEN [fatal |-> FALSE, sync |-> NewConfigMapSync(config.ConfigMapNs, config.ConfigMap)]
    ELSE IF config.ConfigDir # ""
    THEN [fatal |-> FALSE, sync |-> NewFileSync(config.ConfigDir, config.ConfigPeriod)]
    ELSE [fatal |-> FALSE,
          sync |-> NewNopSync(MakeConfig(config.Federations, EmptyMap,
                                         Split(config.NameServers, <<",">>[1])))]

(***************************************************************************)
(* NewConfigSync: the backend selection.  fatal is glog.Fatal, which ends  *)
(* the process.                                                            *)
(***************************************************************************)
NewConfigSync(config) ==
    IF config.ConfigMap # "" /\ config.ConfigDir # ""
    THEN [fatal |-> TRUE, sync |-> NoSync]
    ELSE IF config.ConfigMap # ""
    THEN [fatal |-> FALSE, sync |-> NewConfigMapSync(config.ConfigMapNs, config.ConfigMap)]
    ELSE IF config.ConfigDir # ""
    THEN [fatal |-> FALSE, sync |-> NewFileSync(config.ConfigDir, config.ConfigPeriod)]
    ELSE [fatal |-> FALSE,
          sync |-> NewNopSync(MakeConfig(config.Federations, EmptyMap,
                                         IF Len(config.NameServers) > 0
                                         THEN Split(config.NameServers, <<",">>[1])
                                         ELSE <<>>))]

(***************************************************************************)
(* updateConfig (node-cache): what one invocation does once it runs.       *)
(***************************************************************************)
\* The content of the base file (c.params.cmPath) when it can be read: a
\* Corefile template with both placeholders, the first of them twice.
BaseConfig ==
    <<"S", "T", "U", "B", "_", "D", "O", "M", "A", "I", "N", "S", ".", ":",
      "5", "3", " ", "{", "\n", "\t", "f", "o", "r", "w", "a", "r", "d", " ",
      ".", " ", "U", "P", "S", "T", "R", "E", "A", "M", "_", "S", "E", "R",
      "V", "E", "R", "S", "\n", "}", "\n", "S", "T", "U", "B", "_", "D", "O",
      "M", "A", "I", "N", "S">>

StubDomainsPlaceholder ==
    <<"S", "T", "U", "B", "_", "D", "O", "M", "A", "I", "N", "S">>

UpstreamServersPlaceholder ==
    <<"U", "P", "S", "T", "R", "E", "A", "M", "_", "S", "E", "R", "V", "E",
      "R", "S">>

\* servers[0] of a stub domain without nameservers is out of range.
updateConfigPanics(config) ==
    \E d \in DOMAIN config.StubDomains : Len(config.StubDomains[d]) = 0

\* strings.Index, 1-based; 0 when substr does not occur in s.
Index(s, substr) ==
    LET hits == { i \in 1..(Len(s) - Len(substr) + 1) :
                      SubSeq(s, i, i + Len(substr) - 1) = substr }
    IN  IF hits = {} THEN 0 ELSE CHOOSE i \in hits : \A j \in hits : i <= j

\* strings.Replace(s, old, new, -1) for a non-empty old: every non-overlapping
\* occurrence of old, from the left, becomes new.
RECURSIVE Replace(_, _, _)
Replace(s, old, new) ==
    LET i == Index(s, old)
    IN  IF i = 0 THEN s
        ELSE Slice(s, 1, i - 1) \o new
                \o Replace(Slice(s, i + Len(old), Len(s)), old, new)

\* The forwarding block of one stub domain: it names the first nameserver only.
forwardBlock(domainName, servers) ==
    Join(<<domainName \o <<":", "5", "3", " ", "{">>,
           <<"\t", "e", "r", "r", "o", "r", "s">>,
           <<"\t", "c", "a", "c", "h", "e", " ", "3", "0">>,
           <<"\t", "f", "o", "r", "w", "a", "r", "d", " ", ".", " ">> \o servers[1],
           <<"}">>>>, <<"\n">>)

\* cstr: the blocks of the stub domains in the order the map is ranged over,
\* with nothing between them.
RECURSIVE cstr(_, _)
cstr(config, order) ==
    IF Len(order) = 0 THEN <<>>
    ELSE forwardBlock(order[1], config.StubDomains[order[1]]) \o cstr(config, Tail(order))

\* The values of the two strings.Replace calls, each computed from the base
\* file as read.
replacedStubDomains(config, order) ==
    Replace(BaseConfig, StubDomainsPlaceholder, cstr(config, order))

replacedUpstreamServers(config) ==
    Replace(BaseConfig, UpstreamServersPlaceholder,
            Join(config.UpstreamNameservers, <<" ">>))

\* How ioutil.WriteFile may end: it opens the file truncating it, writes,
\* and closes.  It succeeds with the whole data written; it fails at the
\* open (nothing touched), or after it with none, some or all of the data in
\* the file (a failed write, a short write, a failed close).
WriteOutcomes ==
    {[err |-> FALSE, opened |-> TRUE, n |-> Len(BaseConfig)],
     [err |-> TRUE, opened |-> FALSE, n |-> 0]}
    \cup {[err |-> TRUE, opened |-> TRUE, n |-> k] : k \in {0, 10, Len(BaseConfig)}}

\* The config file after updateConfig: nothing is written when the base file
\* cannot be read; otherwise the results of both strings.Replace calls are
\* dropped and what WriteFile is given is baseConfig as read.
updateConfigWrites(config, old, readOK, write) ==
    IF ~readOK THEN old
    ELSE IF ~write.opened THEN old
    ELSE Slice(BaseConfig, 1, write.n)

Max(a, b) == IF a > b THEN a ELSE b

(***************************************************************************)
(* The calling thread.                                                     *)
(***************************************************************************)
Init ==
    /\ entry \in {"node-cache", "api"}
    /\ dnsConfig \in StartSettings(entry)
    /\ proc = "running"
    /\ mainPc = "start"
    /\ configSync = NoSync
    /\ onceResult = [called |-> FALSE, cfg |-> NoConfig, err |-> NoErr]
    /\ startResult = [returned |-> FALSE, err |-> NoErr]
    /\ initialCalls = <<>>
    /\ periodicCalls = 0
    /\ bgLaunched = 0
    /\ prodPc = "off"
    /\ prodItem = NoConfig
    /\ ticks = 0
    /\ cycles = <<>>
    /\ sent = <<>>
    /\ bgPc = "none"
    /\ applied = <<>>
    /\ current = [main |-> NoConfig, bg |-> NoConfig]
    /\ active = 0
    /\ maxActive = 0
    /\ confFile = NotWritten
    /\ lastUpdate = NoUpdate
    /\ vconfig = NoConfig
    /\ vorders = [fed |-> <<>>, stub |-> <<>>]
    /\ vres = NoCall

\* The caller obtains the handle: settings go through NewConfigSync.
ObtainSync(config) ==
    LET r == NewConfigSync(config)
    IN  /\ dnsConfig' = config
        /\ IF r.fatal
           THEN /\ proc' = "fatal"
                /\ mainPc' = "exited"
                /\ UNCHANGED configSync
           ELSE /\ configSync' = r.sync
                /\ mainPc' = "startsync"
                /\ proc' = proc
        /\ UNCHANGED <<entry, onceResult, startResult, initialCalls, periodicCalls,
                       bgLaunched, prodPc, prodItem, ticks, cycles, sent, bgPc, applied,
                       current, active, maxActive, confFile, lastUpdate, validatorVars>>

\* initConfigMapSync up to its call of StartConfigMapSync: the directory is
\* forced, then NewConfigSync(nil, c.dnsConfig).
initConfigMapSync ==
    /\ proc = "running" /\ mainPc = "start" /\ entry = "node-cache"
    /\ ObtainSync([dnsConfig EXCEPT !.ConfigDir = "/etc/kube-dns/"])

\* A caller of the package that hands its settings to NewConfigSync as they are.
CallNewConfigSync ==
    /\ proc = "running" /\ mainPc = "start" /\ entry = "api"
    /\ ObtainSync(dnsConfig)

\* StartConfigMapSync called with a nil *Sync.
StartConfigMapSync_Nil ==
    /\ proc = "running" /\ mainPc = "startsync" /\ entry = "api"
    /\ startResult' = [returned |-> TRUE, err |-> Err("Invalid configmap specified", <<>>)]
    /\ mainPc' = "startReturned"
    /\ UNCHANGED <<entry, dnsConfig, proc, configSync, onceResult, initialCalls,
                   periodicCalls, bgLaunched, prodPc, prodItem, ticks, cycles, sent, bgPc,
                   applied, current, active, maxActive, confFile, lastUpdate, validatorVars>>

\* StartConfigMapSync going on to Periodic() right after a successful Once(),
\* without invoking updateFunc.
StartConfigMapSync_Once_NoUpdate ==
    /\ proc = "running" /\ mainPc = "startsync"
    /\ \E o \in OnceOutcomes(configSync) :
          /\ onceResult' = [called |-> TRUE, cfg |-> o.cfg, err |-> o.err]
          /\ IF o.err # NoErr
             THEN /\ startResult' = [returned |-> TRUE, err |-> o.err]
                  /\ mainPc' = "startReturned"
             ELSE /\ mainPc' = "periodic"
                  /\ UNCHANGED startResult
    /\ UNCHANGED <<entry, dnsConfig, proc, configSync, initialCalls, periodicCalls,
                   bgLaunched, prodPc, prodItem, ticks, cycles, sent, bgPc, applied, current,
                   active, maxActive, confFile, lastUpdate, validatorVars>>

\* StartConfigMapSync going on to Periodic() although Once() failed.
StartConfigMapSync_Once_ErrIgnored ==
    /\ proc = "running" /\ mainPc = "startsync"
    /\ \E o \in OnceOutcomes(configSync) :
          /\ onceResult' = [called |-> TRUE, cfg |-> o.cfg, err |-> o.err]
          /\ mainPc' = IF o.err # NoErr THEN "periodic" ELSE "callUpdate"
          /\ UNCHANGED startResult
    /\ UNCHANGED <<entry, dnsConfig, proc, configSync, initialCalls, periodicCalls,
                   bgLaunched, prodPc, prodItem, ticks, cycles, sent, bgPc, applied, current,
                   active, maxActive, confFile, lastUpdate, validatorVars>>

\* StartConfigMapSync: (*configSync).Once() and the branch on its error.
StartConfigMapSync_Once ==
    /\ proc = "running" /\ mainPc = "startsync"
    /\ \E o \in OnceOutcomes(configSync) :
          /\ onceResult' = [called |-> TRUE, cfg |-> o.cfg, err |-> o.err]
          /\ IF o.err # NoErr
             THEN /\ startResult' = [returned |-> TRUE, err |-> o.err]
                  /\ mainPc' = "startReturned"
             ELSE /\ mainPc' = "callUpdate"
                  /\ UNCHANGED startResult
    /\ UNCHANGED <<entry, dnsConfig, proc, configSync, initialCalls, periodicCalls,
                   bgLaunched, prodPc, prodItem, ticks, cycles, sent, bgPc, applied, current,
                   active, maxActive, confFile, lastUpdate, validatorVars>>

\* StartConfigMapSync starting updateFunc without waiting for it (go updateFunc).
StartConfigMapSync_UpdateFunc_Async ==
    /\ proc = "running" /\ mainPc = "callUpdate"
    /\ initialCalls' = Append(initialCalls, onceResult.cfg)
    /\ current' = [current EXCEPT !.main = onceResult.cfg]
    /\ active' = active + 1
    /\ maxActive' = Max(maxActive, active + 1)
    /\ mainPc' = "periodic"
    /\ UNCHANGED <<entry, dnsConfig, proc, configSync, onceResult, startResult,
                   periodicCalls, bgLaunched, prodPc, prodItem, ticks, cycles, sent, bgPc,
                   applied, confFile, lastUpdate, validatorVars>>

\* StartConfigMapSync: updateFunc(initialConfig) is entered on the calling thread.
StartConfigMapSync_UpdateFunc ==
    /\ proc = "running" /\ mainPc = "callUpdate"
    /\ initialCalls' = Append(initialCalls, onceResult.cfg)
    /\ current' = [current EXCEPT !.main = onceResult.cfg]
    /\ active' = active + 1
    /\ maxActive' = Max(maxActive, active + 1)
    /\ mainPc' = "inUpdate"
    /\ UNCHANGED <<entry, dnsConfig, proc, configSync, onceResult, startResult,
                   periodicCalls, bgLaunched, prodPc, prodItem, ticks, cycles, sent, bgPc,
                   applied, confFile, lastUpdate, validatorVars>>

\* The body of updateConfig run by thread t ("main" or "bg"): a panic ends the
\* process; otherwise the base file is read and the config file written.
updateConfig(t) ==
    /\ IF updateConfigPanics(current[t])
       THEN /\ proc' = "panicked"
            /\ UNCHANGED <<current, active, confFile, lastUpdate>>
       ELSE /\ \E readOK \in BOOLEAN, write \in WriteOutcomes :
                  /\ confFile' = updateConfigWrites(current[t], confFile, readOK, write)
                  /\ lastUpdate' = [called |-> TRUE, cfg |-> current[t],
                                    readOK |-> readOK,
                                    writeOK |-> readOK /\ ~write.err,
                                    untouched |-> (confFile' = confFile)]
            /\ current' = [current EXCEPT ![t] = NoConfig]
            /\ active' = active - 1
            /\ proc' = proc

\* updateFunc(initialConfig) runs and returns to StartConfigMapSync.
updateConfig_Main ==
    /\ proc = "running" /\ mainPc = "inUpdate"
    /\ updateConfig("main")
    /\ mainPc' = IF updateConfigPanics(current.main) THEN mainPc ELSE "periodic"
    /\ UNCHANGED <<entry, dnsConfig, configSync, onceResult, startResult, initialCalls,
                   periodicCalls, bgLaunched, prodPc, prodItem, ticks, cycles, sent, bgPc,
                   applied, maxActive, validatorVars>>

\* StartConfigMapSync: (*configSync).Periodic() is evaluated; the stream exists.
StartConfigMapSync_Periodic ==
    /\ proc = "running" /\ mainPc = "periodic"
    /\ periodicCalls' = periodicCalls + 1
    /\ prodPc' = "idle"
    /\ mainPc' = "go"
    /\ UNCHANGED <<entry, dnsConfig, proc, configSync, onceResult, startResult,
                   initialCalls, bgLaunched, prodItem, ticks, cycles, sent, bgPc, applied,
                   current, active, maxActive, confFile, lastUpdate, validatorVars>>

\* StartConfigMapSync: the go statement launches periodicSync on the stream.
StartConfigMapSync_Go ==
    /\ proc = "running" /\ mainPc = "go"
    /\ bgLaunched' = bgLaunched + 1
    /\ bgPc' = "recv"
    /\ mainPc' = "return"
    /\ UNCHANGED <<entry, dnsConfig, proc, configSync, onceResult, startResult,
                   initialCalls, periodicCalls, prodPc, prodItem, ticks, cycles, sent, applied,
                   current, active, maxActive, confFile, lastUpdate, validatorVars>>

\* StartConfigMapSync: return nil.
StartConfigMapSync_Return ==
    /\ proc = "running" /\ mainPc = "return"
    /\ startResult' = [returned |-> TRUE, err |-> NoErr]
    /\ mainPc' = "startReturned"
    /\ UNCHANGED <<entry, dnsConfig, proc, configSync, onceResult, initialCalls,
                   periodicCalls, bgLaunched, prodPc, prodItem, ticks, cycles, sent, bgPc,
                   applied, current, active, maxActive, confFile, lastUpdate, validatorVars>>

\* initConfigMapSync returns to its caller; the value StartConfigMapSync
\* returned is dropped, so startup goes on whatever it was.
initConfigMapSync_Return ==
    /\ proc = "running" /\ mainPc = "startReturned" /\ entry = "node-cache"
    /\ mainPc' = "initReturned"
    /\ UNCHANGED <<entry, dnsConfig, proc, configSync, onceResult, startResult,
                   initialCalls, periodicCalls, bgLaunched, prodPc, prodItem, ticks, cycles,
                   sent, bgPc, applied, current, active, maxActive, confFile, lastUpdate,
                   validatorVars>>

(***************************************************************************)
(* The stream of the selected backend and the background task.             *)
(***************************************************************************)
\* A stream cycle that, when the read or the validation fails, sends the
\* initial value again.
StreamCycle_Redeliver ==
    /\ proc = "running" /\ prodPc = "idle" /\ ticks < MaxTicks
    /\ ticks' = ticks + 1
    /\ \E o \in ReadOutcomes :
          /\ cycles' = Append(cycles, o)
          /\ prodPc' = "sending"
          /\ prodItem' = IF o.err = NoErr THEN o.cfg ELSE onceResult.cfg
    /\ UNCHANGED <<entry, dnsConfig, proc, mainPc, configSync, onceResult, startResult,
                   initialCalls, periodicCalls, bgLaunched, sent, bgPc, applied,
                   current, active, maxActive, confFile, lastUpdate, validatorVars>>

\* A stream cycle that does not send a value equal to the one sent last.
StreamCycle_Dedupe ==
    /\ proc = "running" /\ prodPc = "idle" /\ ticks < MaxTicks
    /\ ticks' = ticks + 1
    /\ \E o \in ReadOutcomes :
          /\ cycles' = Append(cycles, o)
          /\ IF o.err = NoErr /\ (sent = <<>> \/ sent[Len(sent)] # o.cfg)
             THEN prodPc' = "sending" /\ prodItem' = o.cfg
             ELSE UNCHANGED <<prodPc, prodItem>>
    /\ UNCHANGED <<entry, dnsConfig, proc, mainPc, configSync, onceResult, startResult,
                   initialCalls, periodicCalls, bgLaunched, sent, bgPc, applied,
                   current, active, maxActive, confFile, lastUpdate, validatorVars>>

\* One read-and-validate cycle of a stream: what validates is offered on the
\* channel, anything else is skipped.
StreamCycle ==
    /\ proc = "running" /\ prodPc = "idle" /\ ticks < MaxTicks
    /\ ticks' = ticks + 1
    /\ \E o \in ReadOutcomes :
          /\ cycles' = Append(cycles, o)
          /\ IF o.err = NoErr
             THEN prodPc' = "sending" /\ prodItem' = o.cfg
             ELSE UNCHANGED <<prodPc, prodItem>>
    /\ UNCHANGED <<entry, dnsConfig, proc, mainPc, configSync, onceResult, startResult,
                   initialCalls, periodicCalls, bgLaunched, sent, bgPc, applied,
                   current, active, maxActive, confFile, lastUpdate, validatorVars>>

\* The directory backend: a tick of its period.
FileSync_Tick == configSync.kind = "file" /\ StreamCycle

\* The ConfigMap backend: a change event of the watched ConfigMap.
ConfigMapSync_Event == configSync.kind = "configmap" /\ StreamCycle

\* syncConfigMap with a receive that does not wait for a send and takes the
\* initial configuration again.
syncConfigMap_Recv_NoWait ==
    /\ proc = "running" /\ bgPc = "recv"
    /\ applied' = Append(applied, onceResult.cfg)
    /\ current' = [current EXCEPT !.bg = onceResult.cfg]
    /\ active' = active + 1
    /\ maxActive' = Max(maxActive, active + 1)
    /\ bgPc' = "inUpdate"
    /\ UNCHANGED <<entry, dnsConfig, proc, mainPc, configSync, onceResult, startResult,
                   initialCalls, periodicCalls, bgLaunched, prodPc, prodItem, ticks, cycles,
                   sent, confFile, lastUpdate, validatorVars>>

\* syncConfigMap with a receive that leaves the value on the channel, so the
\* next receive takes it again.
syncConfigMap_Recv_Again ==
    /\ proc = "running" /\ bgPc = "recv" /\ prodPc = "sending"
    /\ sent' = Append(sent, prodItem)
    /\ applied' = Append(applied, prodItem)
    /\ current' = [current EXCEPT !.bg = prodItem]
    /\ active' = active + 1
    /\ maxActive' = Max(maxActive, active + 1)
    /\ bgPc' = "inUpdate"
    /\ UNCHANGED <<entry, dnsConfig, proc, mainPc, configSync, onceResult, startResult,
                   initialCalls, periodicCalls, bgLaunched, prodPc, prodItem, ticks, cycles,
                   confFile, lastUpdate, validatorVars>>

\* syncConfigMap: nextConfig := <-syncChan meets the stream's send, and
\* c.updateConfig(nextConfig) is entered.
syncConfigMap_Recv ==
    /\ proc = "running" /\ bgPc = "recv" /\ prodPc = "sending"
    /\ sent' = Append(sent, prodItem)
    /\ applied' = Append(applied, prodItem)
    /\ current' = [current EXCEPT !.bg = prodItem]
    /\ active' = active + 1
    /\ maxActive' = Max(maxActive, active + 1)
    /\ prodPc' = "idle"
    /\ prodItem' = NoConfig
    /\ bgPc' = "inUpdate"
    /\ UNCHANGED <<entry, dnsConfig, proc, mainPc, configSync, onceResult, startResult,
                   initialCalls, periodicCalls, bgLaunched, ticks, cycles, confFile, lastUpdate,
                   validatorVars>>

\* syncConfigMap: updateConfig runs and the loop goes back to the receive.
updateConfig_Bg ==
    /\ proc = "running" /\ bgPc = "inUpdate"
    /\ updateConfig("bg")
    /\ bgPc' = IF updateConfigPanics(current.bg) THEN bgPc ELSE "recv"
    /\ UNCHANGED <<entry, dnsConfig, mainPc, configSync, onceResult, startResult,
                   initialCalls, periodicCalls, bgLaunched, prodPc, prodItem, ticks, cycles,
                   sent, applied, maxActive, validatorVars>>

Next ==
    \/ initConfigMapSync
    \/ CallNewConfigSync
    \/ StartConfigMapSync_Nil
    \/ StartConfigMapSync_Once
    \/ StartConfigMapSync_UpdateFunc
    \/ updateConfig_Main
    \/ StartConfigMapSync_Periodic
    \/ StartConfigMapSync_Go
    \/ StartConfigMapSync_Return
    \/ initConfigMapSync_Return
    \/ FileSync_Tick
    \/ ConfigMapSync_Event
    \/ syncConfigMap_Recv
    \/ updateConfig_Bg

Spec == Init /\ [][Next]_vars
(***************************************************************************)
(* The validator on its own: a Config is drawn from ValidatorInputs and    *)
(* one of the validation functions is called on it.                        *)
(***************************************************************************)
SyncIdle ==
    /\ entry = "api"
    /\ dnsConfig = [ConfigMapNs |-> "kube-system", ConfigMap |-> "", ConfigDir |-> "",
                    ConfigPeriod |-> 10, NameServers |-> <<>>, Federations |-> EmptyMap]
    /\ proc = "running"
    /\ mainPc = "start"
    /\ configSync = NoSync
    /\ onceResult = [called |-> FALSE, cfg |-> NoConfig, err |-> NoErr]
    /\ startResult = [returned |-> FALSE, err |-> NoErr]
    /\ initialCalls = <<>>
    /\ periodicCalls = 0
    /\ bgLaunched = 0
    /\ prodPc = "off"
    /\ prodItem = NoConfig
    /\ ticks = 0
    /\ cycles = <<>>
    /\ sent = <<>>
    /\ bgPc = "none"
    /\ applied = <<>>
    /\ current = [main |-> NoConfig, bg |-> NoConfig]
    /\ active = 0
    /\ maxActive = 0
    /\ confFile = NotWritten
    /\ lastUpdate = NoUpdate

ValidateInit ==
    /\ SyncIdle
    /\ vconfig \in ValidatorInputs
    /\ vorders = [fed |-> <<>>, stub |-> <<>>]
    /\ vres = NoCall

\* config.Validate(), with the orders its two map loops take.
CallValidate ==
    /\ vres.call = "none"
    /\ \E fo \in Orders(DOMAIN vconfig.Federations),
          so \in Orders(DOMAIN vconfig.StubDomains) :
          LET r == Validate(vconfig, fo, so)
          IN  /\ vorders' = [fed |-> fo, stub |-> so]
              /\ vres' = [NoCall EXCEPT !.call = "Validate", !.err = r.err, !.ran = r.ran]
    /\ UNCHANGED <<syncVars, vconfig>>

\* config.validateStubDomains()
CallValidateStubDomains ==
    /\ vres.call = "none"
    /\ \E so \in Orders(DOMAIN vconfig.StubDomains) :
          /\ vorders' = [fed |-> <<>>, stub |-> so]
          /\ vres' = [NoCall EXCEPT !.call = "validateStubDomains",
                                    !.err = validateStubDomains(vconfig, so)]
    /\ UNCHANGED <<syncVars, vconfig>>

\* config.validateUpstreamNameserver()
CallValidateUpstreamNameserver ==
    /\ vres.call = "none"
    /\ vres' = [NoCall EXCEPT !.call = "validateUpstreamNameserver",
                              !.err = validateUpstreamNameserver(vconfig)]
    /\ UNCHANGED <<syncVars, vconfig, vorders>>

\* util.ValidateNameserverIpAndPort on one entry of the upstream list.
CallValidateNameserverIpAndPort ==
    /\ vres.call = "none"
    /\ \E i \in 1..Len(vconfig.UpstreamNameservers) :
          LET r == ValidateNameserverIpAndPort(vconfig.UpstreamNameservers[i])
          IN  vres' = [NoCall EXCEPT !.call = "ValidateNameserverIpAndPort",
                                     !.arg = vconfig.UpstreamNameservers[i],
                                     !.err = r.err, !.ip = r.ip, !.port = r.port]
    /\ UNCHANGED <<syncVars, vconfig, vorders>>

ValidateNext ==
    \/ CallValidate
    \/ CallValidateStubDomains
    \/ CallValidateUpstreamNameserver
    \/ CallValidateNameserverIpAndPort

ValidateSpec == ValidateInit /\ [][ValidateNext]_vars
(***************************************************************************)
(* Properties of StartConfigMapSync, NewConfigSync and the node-cache      *)
(* consumer, checked under Spec.                                           *)
(***************************************************************************)
Ran(seq) == {seq[i] : i \in 1..Len(seq)}

\* C1: when Once() succeeds, updateFunc is invoked with the initial
\* configuration exactly once, on the calling thread, and has returned before
\* Periodic() is called and before the background task is launched;
\* StartConfigMapSync then returns nil, and its return does not wait for the
\* background task.
C1_InitialUpdateThenStream ==
    /\ Len(initialCalls) <= 1
    /\ (mainPc = "inUpdate") =>
          (initialCalls = <<onceResult.cfg>> /\ current.main = onceResult.cfg)
    /\ (periodicCalls > 0 \/ bgLaunched > 0) =>
          /\ onceResult.called /\ onceResult.err = NoErr
          /\ initialCalls = <<onceResult.cfg>>
          /\ current.main = NoConfig
          /\ periodicCalls = 1
    /\ (bgLaunched > 0) => (periodicCalls = 1 /\ bgLaunched = 1)
    /\ (startResult.returned /\ onceResult.called /\ onceResult.err = NoErr) =>
          /\ startResult.err = NoErr
          /\ initialCalls = <<onceResult.cfg>>
          /\ periodicCalls = 1
          /\ bgLaunched = 1
    /\ (proc = "running" /\ mainPc = "return") => ENABLED StartConfigMapSync_Return

\* StartConfigMapSync has returned nil while the background task still waits
\* for its first configuration.
C1_Witness ==
    /\ startResult.returned /\ startResult.err = NoErr
    /\ onceResult.called /\ Len(initialCalls) = 1
    /\ bgPc = "recv" /\ applied = <<>>

\* C2: when Once() returns an error, StartConfigMapSync returns that error,
\* never invokes updateFunc, never calls Periodic() and never launches the
\* background task.
C2_OnceErrorAborts ==
    (onceResult.called /\ onceResult.err # NoErr) =>
        /\ startResult = [returned |-> TRUE, err |-> onceResult.err]
        /\ initialCalls = <<>> /\ maxActive = 0
        /\ periodicCalls = 0 /\ prodPc = "off"
        /\ bgLaunched = 0 /\ bgPc = "none"

C2_Witness ==
    /\ onceResult.called /\ onceResult.err # NoErr
    /\ startResult.returned /\ configSync.kind = "file"

\* C3: an initial fetch failure is startup-fatal for node-cache: when Once()
\* failed, initConfigMapSync does not return to let startup go on.
C3_FetchFailureStopsStartup ==
    (onceResult.called /\ onceResult.err # NoErr) => mainPc # "initReturned"

\* C4: with both ConfigMap and ConfigDir set, NewConfigSync ends the process
\* and returns no handle, so that no Once(), Periodic() or consumer callback
\* ever happens.
C4_ConflictIsFatal ==
    /\ (dnsConfig.ConfigMap # "" /\ dnsConfig.ConfigDir # "") =>
          /\ mainPc \in {"start", "exited"}
          /\ configSync = NoSync
          /\ ~onceResult.called /\ periodicCalls = 0
          /\ initialCalls = <<>> /\ applied = <<>> /\ maxActive = 0
    /\ (mainPc = "exited") <=> (proc = "fatal")

C4_Witness ==
    /\ proc = "fatal" /\ entry = "node-cache"
    /\ dnsConfig.ConfigMap # "" /\ dnsConfig.ConfigDir # ""

\* C5: NewConfigSync selects one backend from the settings alone: the
\* ConfigMap one (namespace, name) when only ConfigMap is set, the directory
\* one (directory, period) when only ConfigDir is set, and otherwise the static
\* one, whose Config has the settings' federations and, as upstream
\* nameservers, the pieces of NameServers between its commas (none when
\* NameServers is empty).
C5_BackendSelection ==
    (mainPc \notin {"start", "exited"}) =>
        /\ (dnsConfig.ConfigMap # "" /\ dnsConfig.ConfigDir = "") =>
              configSync = [kind |-> "configmap", ns |-> dnsConfig.ConfigMapNs,
                            name |-> dnsConfig.ConfigMap]
        /\ (dnsConfig.ConfigMap = "" /\ dnsConfig.ConfigDir # "") =>
              configSync = [kind |-> "file", dir |-> dnsConfig.ConfigDir,
                            period |-> dnsConfig.ConfigPeriod]
        /\ (dnsConfig.ConfigMap = "" /\ dnsConfig.ConfigDir = "") =>
              /\ configSync.kind = "nop"
              /\ configSync.config.Federations = dnsConfig.Federations
              /\ configSync.config.StubDomains = EmptyMap
              /\ LET up == configSync.config.UpstreamNameservers
                 IN  IF dnsConfig.NameServers = <<>> THEN up = <<>>
                     ELSE /\ Len(up) >= 1
                          /\ Join(up, <<",">>) = dnsConfig.NameServers
                          /\ \A i \in 1..Len(up) : "," \notin Ran(up[i])
        /\ ~(dnsConfig.ConfigMap # "" /\ dnsConfig.ConfigDir # "")

C5_Witness ==
    /\ configSync.kind = "nop"
    /\ configSync.config.UpstreamNameservers = <<Ip8888, Ip8844>>
    /\ configSync.config.Federations # EmptyMap

\* C6: updateConfig never runs in two invocations at once: the initial
\* invocation is over before the background task exists, there is one
\* background task, and it finishes updateConfig on one configuration before
\* it receives the next.
C6_UpdatesNeverOverlap ==
    /\ active <= 1 /\ maxActive <= 1
    /\ bgLaunched <= 1
    /\ (bgPc # "none") =>
          (bgLaunched = 1 /\ current.main = NoConfig /\ Len(initialCalls) = 1)
    /\ (bgPc = "recv") => current.bg = NoConfig
    /\ (bgPc = "inUpdate") => current.bg = applied[Len(applied)]
    /\ active = (IF current.main = NoConfig THEN 0 ELSE 1)
                + (IF current.bg = NoConfig THEN 0 ELSE 1)

\* The background task runs updateConfig on its second configuration.
C6_Witness ==
    /\ bgPc = "inUpdate" /\ Len(applied) = 2 /\ active = 1
    /\ Len(initialCalls) = 1

\* C7: every Configuration that reaches the consumer callback, as the initial
\* value or as a streamed update and whichever backend was selected, is one
\* that Validate accepts.
C7_OnlyValidConfigsDelivered ==
    /\ \A i \in 1..Len(initialCalls) : IsValid(initialCalls[i])
    /\ \A i \in 1..Len(applied) : IsValid(applied[i])

(***************************************************************************)
(* Properties of the validator, checked under ValidateSpec.                *)
(***************************************************************************)
\* C8: Validate returns nil exactly when the federation, stub-domain and
\* upstream passes all succeed; otherwise it returns the error of the first
\* failing pass in that order, and the passes after it are not run.
C8_ValidateFirstFailingPass ==
    (vres.call = "Validate") =>
        LET e1 == validateFederations(vconfig, vorders.fed)
            e2 == validateStubDomains(vconfig, vorders.stub)
            e3 == validateUpstreamNameserver(vconfig)
        IN  /\ (vres.err = NoErr) <=> (e1 = NoErr /\ e2 = NoErr /\ e3 = NoErr)
            /\ (e1 # NoErr) =>
                  (vres.err = e1 /\ vres.ran = <<"federations">>)
            /\ (e1 = NoErr /\ e2 # NoErr) =>
                  (vres.err = e2 /\ vres.ran = <<"federations", "stubDomains">>)
            /\ (e1 = NoErr /\ e2 = NoErr) =>
                  (vres.err = e3 /\ vres.ran = <<"federations", "stubDomains",
                                                 "upstreamNameservers">>)

\* Validate was called on a Config whose federations and stub domains both
\* fail, and returned the federation error.
C8_Witness ==
    /\ vres.call = "Validate"
    /\ validateFederations(vconfig, vorders.fed) # NoErr
    /\ validateStubDomains(vconfig, vorders.stub) # NoErr
    /\ vres.err.kind = "not a valid federation name"

\* An upstream entry as the claim describes it: a bare parseable IP, or a
\* strict host:port whose host parses as an IP and whose port is an integer
\* in 1..65535.
UpstreamEntryAccepted(ns) ==
    \/ ParseIP(ns).ok
    \/ LET hp == SplitHostPort(ns)
       IN  /\ hp.ok
           /\ ParseIP(hp.host).ok
           /\ Atoi(hp.port).ok
           /\ ~Int64Less(Atoi(hp.port).val, 1)
           /\ ~Int64Greater(Atoi(hp.port).val, 65535)

\* C9: the upstream pass accepts a list exactly when it has at most 3 entries
\* and every entry is a bare IP (normalized to port "53") or a strict host:port
\* with an IP host and a port in 1..65535; a list of 4 or more entries is
\* rejected whatever its entries, and ports 0 and 70000 are rejected.
C9_UpstreamPass ==
    /\ (vres.call = "validateUpstreamNameserver") =>
          LET l == vconfig.UpstreamNameservers
          IN  /\ (vres.err = NoErr) <=>
                    (Len(l) <= 3 /\ \A i \in 1..Len(l) : UpstreamEntryAccepted(l[i]))
              /\ (Len(l) >= 4) => (vres.err # NoErr)
    /\ (vres.call = "ValidateNameserverIpAndPort") =>
          /\ (vres.err = NoErr) <=> UpstreamEntryAccepted(vres.arg)
          /\ ParseIP(vres.arg).ok => (vres.err = NoErr /\ vres.port = <<"5", "3">>)
          /\ (vres.arg \in {NsIpPort0, NsIpPort70000}) => (vres.err # NoErr)

\* Four entries, each acceptable by itself, are rejected.
C9_Witness ==
    /\ vres.call = "validateUpstreamNameserver"
    /\ Len(vconfig.UpstreamNameservers) = 4
    /\ \A i \in 1..4 : UpstreamEntryAccepted(vconfig.UpstreamNameservers[i])
    /\ vres.err # NoErr

\* A stub-domain nameserver as the claim describes it: split at its first ':',
\* a port segment, if any, is an unsigned 16-bit integer, and the host segment
\* is an IP or the whole string is a DNS-1123 subdomain.
StubNameserverAccepted(ns) ==
    LET i == IndexByte(ns, ":")
        host == IF i = 0 THEN ns ELSE Slice(ns, 1, i - 1)
        portSegment == Slice(ns, i + 1, Len(ns))
    IN  /\ (i # 0) => ParseUint16(portSegment).ok
        /\ ParseIP(host).ok \/ IsDNS1123Subdomain(ns)

\* C10: the stub-domain pass accepts exactly when every domain is a DNS-1123
\* subdomain and every nameserver of it is acceptable in the sense above; so
\* port 0 is accepted here, although the upstream pass rejects it.
C10_StubDomainPass ==
    (vres.call = "validateStubDomains") =>
        /\ (vres.err = NoErr) <=>
              \A d \in DOMAIN vconfig.StubDomains :
                  /\ IsDNS1123Subdomain(d)
                  /\ \A i \in 1..Len(vconfig.StubDomains[d]) :
                        StubNameserverAccepted(vconfig.StubDomains[d][i])
        /\ (vconfig.StubDomains = OneStub(AcmeLocal, <<NsIpPort0>>)) =>
              /\ vres.err = NoErr
              /\ ValidateNameserverIpAndPort(NsIpPort0).err # NoErr

\* The stub-domain pass has accepted a nameserver with port 0.
C10_Witness ==
    /\ vres.call = "validateStubDomains"
    /\ vconfig.StubDomains = OneStub(AcmeLocal, <<NsIpPort0>>)
    /\ vres.err = NoErr

\* The stub-domain pass was called on one domain with the one nameserver ns.
StubPassCalledOn(ns) ==
    /\ vres.call = "validateStubDomains"
    /\ vconfig.StubDomains = OneStub(AcmeLocal, <<ns>>)

\* C11 as stated: "not-an-ip:53" is rejected by the upstream pass while the
\* whole-string fallback makes it, a host:port entry with a non-IP host,
\* acceptable to the stub-domain pass.
C11_FallbackAcceptsHostPort ==
    StubPassCalledOn(NsNotAnIpPort) =>
        /\ vres.err = NoErr
        /\ ValidateNameserverIpAndPort(NsNotAnIpPort).err # NoErr

\* C11, amended: "not-an-ip:53" is rejected by the upstream pass and by the
\* stub-domain pass as well: a string with a ':' is never a DNS-1123
\* subdomain, so the stub-domain pass rejects every entry with a ':' whose
\* host segment is not an IP.  The fallback makes only the bare "not-an-ip"
\* acceptable to the stub-domain pass, which the upstream pass rejects.
C11_FallbackOnlyWithoutPort ==
    /\ \A ns \in NameserverSamples :
          StubPassCalledOn(ns) =>
              /\ (IndexByte(ns, ":") # 0 /\ ~ParseIP(SplitN2(ns, ":")[1]).ok)
                    => (vres.err = Err("invalid nameserver", ns))
              /\ (ns = NsNotAnIp) =>
                    (vres.err = NoErr /\ ValidateNameserverIpAndPort(ns).err # NoErr)
    /\ (vres.call = "ValidateNameserverIpAndPort"
           /\ vres.arg \in {NsNotAnIpPort, NsNotAnIp}) => (vres.err # NoErr)

\* The stub-domain pass has rejected "not-an-ip:53".
C11_Witness ==
    /\ StubPassCalledOn(NsNotAnIpPort)
    /\ vres.err = Err("invalid nameserver", NsNotAnIpPort)

\* C12: with the static backend, Once() returns the wrapped configuration
\* with no error and the stream never yields, ends or fails; so the consumer
\* callback is invoked once in total, with the initial value, and the
\* background task stays at its receive.
C12_StaticBackendUpdatesOnce ==
    (configSync.kind = "nop") =>
        /\ onceResult.called =>
              (onceResult.cfg = configSync.config /\ onceResult.err = NoErr)
        /\ prodPc \in {"off", "idle"} /\ prodItem = NoConfig
        /\ ticks = 0 /\ sent = <<>> /\ applied = <<>>
        /\ bgPc \in {"none", "recv"} /\ current.bg = NoConfig
        /\ Len(initialCalls) <= 1
        /\ (startResult.returned /\ startResult.err = NoErr) =>
              (initialCalls = <<configSync.config>> /\ bgPc = "recv")

\* StartConfigMapSync has returned on the static backend and the background
\* task waits.
C12_Witness ==
    /\ configSync.kind = "nop"
    /\ startResult.returned /\ startResult.err = NoErr
    /\ initialCalls = <<configSync.config>>
    /\ Len(configSync.config.UpstreamNameservers) = 2
    /\ bgPc = "recv" /\ prodPc = "idle"

\* The values of the cycles that read and validated, in order.
RECURSIVE GoodValues(_)
GoodValues(log) ==
    IF Len(log) = 0 THEN <<>>
    ELSE IF log[1].err = NoErr THEN <<log[1].cfg>> \o GoodValues(Tail(log))
    ELSE GoodValues(Tail(log))

\* What the stream has put on its channel: the values received, and the one
\* it is blocked sending.
Offered == sent \o (IF prodPc = "sending" THEN <<prodItem>> ELSE <<>>)

\* C13: in the directory-backed stream a tick whose read or validation fails
\* delivers nothing (no earlier value is delivered again) and does not stop the
\* loop: the next tick fires and, when it succeeds, delivers its value; ticks
\* do not overlap, so at most one value is in flight.
C13_DirectoryStreamSkipsFailedTicks ==
    (configSync.kind = "file") =>
        /\ Len(cycles) = ticks
        /\ Offered = GoodValues(cycles)
        /\ (prodPc = "sending") =>
              (cycles[Len(cycles)].err = NoErr /\ prodItem = cycles[Len(cycles)].cfg)
        /\ (periodicCalls > 0) => (prodPc \in {"idle", "sending"})
        /\ (proc = "running" /\ periodicCalls > 0 /\ prodPc = "idle" /\ ticks < MaxTicks)
              => ENABLED FileSync_Tick

\* After a good initial value, a failed tick delivered nothing and the tick
\* after it delivered its value.
C13_Witness ==
    /\ configSync.kind = "file"
    /\ onceResult.err = NoErr
    /\ Len(cycles) = 2
    /\ cycles[1].err # NoErr /\ cycles[2].err = NoErr
    /\ sent = <<cycles[2].cfg>> /\ prodPc = "idle"

\* C14: in the ConfigMap-backed stream every change event whose value parses
\* and validates is forwarded, equal values included; an event whose value
\* does not is dropped; and no failure ends the stream: later valid changes
\* are still delivered.
C14_ConfigMapStreamForwardsValidEvents ==
    (configSync.kind = "configmap") =>
        /\ Len(cycles) = ticks
        /\ Offered = GoodValues(cycles)
        /\ \A i \in 1..Len(sent) : IsValid(sent[i])
        /\ (periodicCalls > 0) => (prodPc \in {"idle", "sending"})
        /\ (proc = "running" /\ periodicCalls > 0 /\ prodPc = "idle" /\ ticks < MaxTicks)
              => ENABLED ConfigMapSync_Event

\* The same valid value was forwarded twice, with a dropped event in between.
C14_Witness ==
    /\ configSync.kind = "configmap"
    /\ Len(cycles) = 3
    /\ cycles[1].err = NoErr /\ cycles[2].err # NoErr /\ cycles[3] = cycles[1]
    /\ sent = <<cycles[1].cfg, cycles[1].cfg>>

\* C15: for every Configuration that Validate accepts, updateConfig runs to
\* completion without a runtime failure: every stub domain of an accepted
\* Configuration has at least one nameserver, so servers[0] is never out of
\* range.
C15_AcceptedConfigNeverPanics ==
    \A t \in {"main", "bg"} :
        (current[t] # NoConfig /\ IsValid(current[t]))
            => /\ \A d \in DOMAIN current[t].StubDomains :
                      Len(current[t].StubDomains[d]) >= 1
               /\ ~updateConfigPanics(current[t])
               /\ proc # "panicked"

\* The base file with every STUB_DOMAINS placeholder replaced by the
\* forwarding blocks of config and every UPSTREAM_SERVERS placeholder by its
\* upstream nameservers joined by spaces, for each order of the stub domains.
SubstitutedContents(config) ==
    { Replace(replacedStubDomains(config, o), UpstreamServersPlaceholder,
              Join(config.UpstreamNameservers, <<" ">>)) :
        o \in Orders(DOMAIN config.StubDomains) }

\* C16: after updateConfig(cfg) succeeds, the content written to the config
\* file is the base file with both placeholders replaced from cfg; when
\* reading the base file fails, the config file is left unwritten.
C16_WrittenContentIsSubstituted ==
    lastUpdate.called =>
        /\ (lastUpdate.readOK /\ lastUpdate.writeOK)
              => confFile \in SubstitutedContents(lastUpdate.cfg)
        /\ (~lastUpdate.readOK) => lastUpdate.untouched

\* C17: the background delivery task never returns, and what it passes to
\* updateConfig is what the backend sent on the stream, in the order sent and
\* each value once; it never calls updateConfig with a nil configuration.
C17_BackgroundTaskRelaysStream ==
    /\ (bgLaunched > 0) => (bgPc \in {"recv", "inUpdate"})
    /\ Len(applied) <= Len(GoodValues(cycles))
    /\ applied = SubSeq(GoodValues(cycles), 1, Len(applied))
    /\ Len(GoodValues(cycles)) - Len(applied) = (IF prodPc = "sending" THEN 1 ELSE 0)
    /\ \A i \in 1..Len(applied) : applied[i] # NoConfig
    /\ (bgPc = "inUpdate") =>
          (applied # <<>> /\ current.bg = applied[Len(applied)] /\ current.bg # NoConfig)
    /\ (bgPc # "inUpdate") => (current.bg = NoConfig)

\* The task has relayed two different configurations, the stream having had
\* a failed cycle too, and waits for the next.
C17_Witness ==
    /\ bgPc = "recv"
    /\ Len(applied) = 2 /\ applied[1] # applied[2]
    /\ Len(cycles) = 3
    /\ applied = GoodValues(cycles)
====
